---- MODULE Spec2Model ----
(***************************************************************************)
(* Model of the fedimint-nwc gateway: main and event_loop                  *)
(* (fedimint-nwc/src/main.rs) and AppState (fedimint-nwc/src/state.rs).    *)
(*                                                                         *)
(* One task runs main -> event_loop; handle_event and                      *)
(* wait_for_active_requests are called inline from the loop, so each has a *)
(* frame position (hePc, wPc) next to the caller's position (pc).  A step  *)
(* of the model is the code between two suspension points (.await).        *)
(***************************************************************************)
EXTENDS Naturals, Sequences, FiniteSets

\* ------------------------------------------------------------------ bounds
MaxQueue == 1   \* notifications buffered in the receiver and not yet received
MaxIds == 2     \* distinct event identifiers

\* ------------------------------------------------------- events and stream
Ids == 1..MaxIds

\* Kind::WalletConnectRequest and one other kind
WalletConnectRequest == "WalletConnectRequest"
Kinds == {WalletConnectRequest, "TextNote"}

\* state.key_manager.user_keys().public_key() and one foreign key
UserPublicKey == "user"
PublicKeys == {UserPublicKey, "stranger"}

\* what the loop and handle_event inspect of a nostr_sdk::Event; sigValid is
\* the result of event.verify().is_ok()
Notif(t, i, k, p, s) ==
    [type |-> t, id |-> i, kind |-> k, pubkey |-> p, sigValid |-> s]

Events == {Notif("Event", i, k, p, s) :
             i \in Ids, k \in Kinds, p \in PublicKeys, s \in BOOLEAN}

\* RelayPoolNotification::Shutdown, any other RelayPoolNotification variant,
\* and the Err(_) of notifications.recv()
ShutdownNotice == Notif("Shutdown", 0, "none", "none", FALSE)
OtherNotice == Notif("Other", 0, "none", "none", FALSE)
RecvError == Notif("Err", 0, "none", "none", FALSE)
NoNotif == Notif("None", 0, "none", "none", FALSE)

Notifications == Events \cup {ShutdownNotice, OtherNotice, RecvError}

\* ------------------------------------------------------------------- state
VARIABLES
    pc,               \* position of main / event_loop
    hePc,             \* position inside AppState::handle_event
    wPc,              \* position inside AppState::wait_for_active_requests
    arm,              \* the arm of the match at main.rs:55-76 taken last
    heEvent,          \* the `event` argument of the running handle_event
    queue,            \* notifications sent to the receiver, oldest first
    sigFired,         \* the ctrl_c future is ready
    active_requests,  \* AppState.active_requests (BTreeSet<EventId>)
    lock,             \* holder of the tokio Mutex around active_requests
    backend,          \* the handle_nwc_request future of the last dispatch
    backendWill,      \* what that invocation does if it is left to run
    outcome,          \* the match arm taken at state.rs:73-75
    connected,        \* relay pool: "no", "yes", "closed"
    published,        \* broadcast_info_event returned Ok
    exit,             \* result of main: "none", "ok", "err"
    lastDone          \* history, not program state: the id whose dispatch
                      \* ended last (0: none yet)

vars == <<pc, hePc, wPc, arm, heEvent, queue, sigFired, active_requests, lock,
          backend, backendWill, outcome, connected, published, exit,
          lastDone>>

TypeOK ==
    /\ pc \in {"new", "connect", "publish", "select", "handling", "draining",
               "disconnect", "exit", "direct"}
    /\ hePc \in {"idle", "gate", "begin", "await", "remove"}
    /\ wPc \in {"idle", "lock", "check", "sleep"}
    /\ arm \in {"none", "event_ok", "event_invalid", "shutdown", "unhandled",
                "recv_err"}
    /\ heEvent \in Events \cup {NoNotif}
    /\ queue \in Seq(Notifications) /\ Len(queue) <= MaxQueue
    /\ sigFired \in BOOLEAN
    /\ active_requests \subseteq Ids
    /\ lock \in {"free", "wait"}
    /\ backend \in {"idle", "running", "returned", "dropped"}
    /\ backendWill \in {"none", "ok", "err", "never"}
    /\ outcome \in {"none", "ok", "err", "timeout"}
    /\ connected \in {"no", "yes", "closed"}
    /\ published \in BOOLEAN
    /\ exit \in {"none", "ok", "err"}
    /\ lastDone \in Ids \cup {0}

\* the state before main runs AppState::new: empty ledger (state.rs:29)
Init ==
    /\ pc = "new"
    /\ hePc = "idle"
    /\ wPc = "idle"
    /\ arm = "none"
    /\ heEvent = NoNotif
    /\ queue = <<>>
    /\ sigFired = FALSE
    /\ active_requests = {}
    /\ lock = "free"
    /\ backend = "idle"
    /\ backendWill = "none"
    /\ outcome = "none"
    /\ connected = "no"
    /\ published = FALSE
    /\ exit = "none"
    /\ lastDone = 0

\* ----------------------------------------------------------------- startup
\* main.rs:23  AppState::new(cli).await?  -- Err aborts main
AfterNew(ok) == IF ok THEN "connect" ELSE "exit"

NewState ==
    /\ pc = "new"
    /\ \E ok \in BOOLEAN :
         /\ pc' = AfterNew(ok)
         /\ exit' = IF AfterNew(ok) = "exit" THEN "err" ELSE exit
    /\ UNCHANGED <<hePc, wPc, arm, heEvent, queue, sigFired, active_requests,
                   lock, backend, backendWill, outcome, connected, published,
                   lastDone>>

\* main.rs:26  state.nostr_service.connect().await  -- has no result
Connect ==
    /\ pc = "connect"
    /\ connected' = "yes"
    /\ pc' = "publish"
    /\ UNCHANGED <<hePc, wPc, arm, heEvent, queue, sigFired, active_requests,
                   lock, backend, backendWill, outcome, published, exit,
                   lastDone>>

\* variant: the result of the publish is ignored
AfterPublishIgnored(ok) == "select"

\* main.rs:27-33  broadcast_info_event(..).await?  then event_loop is entered
AfterPublish(ok) == IF ok THEN "select" ELSE "exit"

BroadcastInfo ==
    /\ pc = "publish"
    /\ \E ok \in BOOLEAN :
         /\ published' = ok
         /\ pc' = AfterPublish(ok)
         /\ exit' = IF AfterPublish(ok) = "exit" THEN "err" ELSE exit
    /\ UNCHANGED <<hePc, wPc, arm, heEvent, queue, sigFired, active_requests,
                   lock, backend, backendWill, outcome, connected,
                   lastDone>>

\* ------------------------------------------------------------- environment
\* the operator's interrupt makes the pinned ctrl_c future (main.rs:41-42)
\* ready; it stays ready until the select polls it
SignalFire ==
    /\ pc \in {"select", "handling"}
    /\ ~sigFired
    /\ sigFired' = TRUE
    /\ UNCHANGED <<pc, hePc, wPc, arm, heEvent, queue, active_requests, lock,
                   backend, backendWill, outcome, connected, published, exit,
                   lastDone>>

\* the relay pool sends a notification to the receiver subscribed at
\* main.rs:44; a lagging receiver is told so by an Err on its next recv
Arrive ==
    /\ pc \in {"select", "handling"}
    /\ Len(queue) < MaxQueue
    /\ \E n \in Notifications : queue' = Append(queue, n)
    /\ UNCHANGED <<pc, hePc, wPc, arm, heEvent, sigFired, active_requests,
                   lock, backend, backendWill, outcome, connected, published,
                   exit,
                   lastDone>>

\* variant: the loop does not compare the author
LoopGateNoAuthor(e) ==
    /\ e.kind = WalletConnectRequest
    /\ e.sigValid

\* -------------------------------------------------------------- event_loop
\* main.rs:58-60  the condition under which the loop calls handle_event
LoopGate(e) ==
    /\ e.kind = WalletConnectRequest
    /\ e.pubkey = UserPublicKey
    /\ e.sigValid

\* variant: a biased select that polls recv first
CtrlCAfterRecv(sig, q) == sig /\ q = <<>>

\* main.rs:47-48  tokio::select! without `biased`: a branch whose future is
\* ready may be the one taken, in any order among the ready ones
CtrlCReady(sig, q) == sig
RecvReady(sig, q) == q # <<>>

\* main.rs:55-76  the arm of the match that a received notification takes
Arm(n) ==
    CASE n.type = "Event" -> IF LoopGate(n) THEN "event_ok" ELSE "event_invalid"
      [] n.type = "Shutdown" -> "shutdown"
      [] n.type = "Other" -> "unhandled"
      [] n.type = "Err" -> "recv_err"

\* variant: a receive error ends the loop
AfterArmErrBreaks(a) ==
    CASE a = "event_ok" -> "handling"
      [] a = "event_invalid" -> "select"
      [] a = "shutdown" -> "disconnect"
      [] a = "unhandled" -> "select"
      [] a = "recv_err" -> "disconnect"

\* variant: handle_event is spawned as a task and the loop goes on
AfterArmSpawns(a) ==
    CASE a = "event_ok" -> "select"
      [] a = "event_invalid" -> "select"
      [] a = "shutdown" -> "disconnect"
      [] a = "unhandled" -> "select"
      [] a = "recv_err" -> "select"

\* variant: the shutdown notice falls into the catch-all arm
AfterArmShutdownContinues(a) ==
    CASE a = "event_ok" -> "handling"
      [] a = "event_invalid" -> "select"
      [] a = "shutdown" -> "select"
      [] a = "unhandled" -> "select"
      [] a = "recv_err" -> "select"

\* main.rs:55-76  where the loop goes from each arm: into handle_event
\* (main.rs:62), out of the loop (main.rs:69), or to the next iteration
AfterArm(a) ==
    CASE a = "event_ok" -> "handling"
      [] a = "event_invalid" -> "select"
      [] a = "shutdown" -> "disconnect"
      [] a = "unhandled" -> "select"
      [] a = "recv_err" -> "select"

\* variant: the dispatch itself is raced against ctrl_c
SelectPolledWhileHandling(p) == p \in {"select", "handling"}

\* main.rs:46-47, 62  the select is polled at the top of an iteration only:
\* while a branch body awaits handle_event the ctrl_c future is not polled
SelectPolled(p) == p = "select"

\* main.rs:48-50  the ctrl_c branch: wait_for_active_requests is called
SelectCtrlC ==
    /\ SelectPolled(pc)
    /\ CtrlCReady(sigFired, queue)
    /\ pc' = "draining"
    /\ wPc' = "lock"
    /\ UNCHANGED <<hePc, arm, heEvent, queue, sigFired, active_requests, lock,
                   backend, backendWill, outcome, connected, published, exit,
                   lastDone>>

\* main.rs:54-76  the recv branch for a notification of type t; from the
\* event_ok arm handle_event is called with the event (main.rs:62)
Recv(t) ==
    /\ pc = "select"
    /\ RecvReady(sigFired, queue)
    /\ Head(queue).type = t
    /\ queue' = Tail(queue)
    /\ arm' = Arm(Head(queue))
    /\ pc' = AfterArm(Arm(Head(queue)))
    /\ IF Arm(Head(queue)) = "event_ok"
         THEN hePc' = "gate" /\ heEvent' = Head(queue)
         ELSE UNCHANGED <<hePc, heEvent>>
    /\ UNCHANGED <<wPc, sigFired, active_requests, lock, backend, backendWill,
                   outcome, connected, published, exit,
                   lastDone>>

RecvEvent == Recv("Event")
RecvShutdown == Recv("Shutdown")
RecvOther == Recv("Other")
RecvErr == Recv("Err")

\* main.rs:81-82 and main.rs:33-35  disconnect().await? ends event_loop and
\* its result becomes the result of main; the receiver is dropped with the
\* frame
Disconnect ==
    /\ pc = "disconnect"
    /\ connected' = "closed"
    /\ pc' = "exit"
    /\ \E ok \in BOOLEAN : exit' = IF ok THEN "ok" ELSE "err"
    /\ queue' = <<>>
    /\ UNCHANGED <<hePc, wPc, arm, heEvent, sigFired, active_requests, lock,
                   backend, backendWill, outcome, published,
                   lastDone>>

\* ------------------------------------------------------------ handle_event
\* variant: the result of verify() taken the wrong way round
HandleGateInverted(e) ==
    /\ e.kind = WalletConnectRequest
    /\ ~e.sigValid

\* state.rs:65  the condition handle_event itself checks
HandleGate(e) ==
    /\ e.kind = WalletConnectRequest
    /\ e.sigValid

\* the caller's position when handle_event returns: the loop goes on to its
\* next iteration (main.rs:62, 46)
ReturnFromHandle(p) == IF p = "handling" THEN "select" ELSE p

\* state.rs:65-67, 79-81  the gate; a rejected event is logged and dropped
HeGate ==
    /\ hePc = "gate"
    /\ IF HandleGate(heEvent)
         THEN /\ hePc' = "begin"
              /\ UNCHANGED <<pc, heEvent>>
         ELSE /\ hePc' = "idle"
              /\ heEvent' = NoNotif
              /\ pc' = ReturnFromHandle(pc)
    /\ UNCHANGED <<wPc, arm, queue, sigFired, active_requests, lock, backend,
                   backendWill, outcome, connected, published, exit,
                   lastDone>>

\* variant: the insert is left out
BeginLedgerNoInsert(ledger, id) == ledger

\* state.rs:68  begin(id): insert under the lock
BeginLedger(ledger, id) == ledger \cup {id}

\* variants: an arm that returns early and skips the removal
EndLedgerSkipErr(ledger, id, o) == IF o = "err" THEN ledger ELSE ledger \ {id}
EndLedgerSkipTimeout(ledger, id, o) ==
    IF o = "timeout" THEN ledger ELSE ledger \ {id}

\* state.rs:78  end(id): remove under the lock, whatever arm o was taken
EndLedger(ledger, id, o) == ledger \ {id}

\* state.rs:68-71  once the lock is acquired, the insert, the release of the
\* guard and the first poll of timeout(60 s, handle_nwc_request(..)) run
\* without suspension; what the backend will do is the environment's choice
HeBegin ==
    /\ hePc = "begin"
    /\ lock = "free"
    /\ active_requests' = BeginLedger(active_requests, heEvent.id)
    /\ backend' = "running"
    /\ \E w \in {"ok", "err", "never"} : backendWill' = w
    /\ outcome' = "none"
    /\ hePc' = "await"
    /\ UNCHANGED <<pc, wPc, arm, heEvent, queue, sigFired, lock, connected,
                   published, exit,
                   lastDone>>

\* variant: the backend call awaited without the timer
DispatchOutcomesNoTimer(will) == IF will = "never" THEN {} ELSE {will}

\* state.rs:70-76  the race of the backend call and the 60 s timer: the ways
\* the awaited timeout can resolve when the backend would do `will`
DispatchOutcomes(will) ==
    {"timeout"} \cup (IF will = "never" THEN {} ELSE {will})

\* state.rs:70-76  the timeout resolves and the matching arm logs; on Elapsed
\* the backend future is dropped with the Timeout that owns it
HeComplete ==
    /\ hePc = "await"
    /\ \E o \in DispatchOutcomes(backendWill) :
         /\ outcome' = o
         /\ backend' = IF o = "timeout" THEN "dropped" ELSE "returned"
    /\ hePc' = "remove"
    /\ UNCHANGED <<pc, wPc, arm, heEvent, queue, sigFired, active_requests,
                   lock, backendWill, connected, published, exit,
                   lastDone>>

\* state.rs:78-82  end(id) under the lock, then handle_event returns
HeRemove ==
    /\ hePc = "remove"
    /\ lock = "free"
    /\ active_requests' = EndLedger(active_requests, heEvent.id, outcome)
    /\ hePc' = "idle"
    /\ heEvent' = NoNotif
    /\ pc' = ReturnFromHandle(pc)
    /\ lastDone' = heEvent.id
    /\ UNCHANGED <<wPc, arm, queue, sigFired, lock, backend, backendWill,
                   outcome, connected, published, exit>>

\* ------------------------------------------------ wait_for_active_requests
\* state.rs:52  the guard is bound to `requests` and lives until the return
WaitLock ==
    /\ wPc = "lock"
    /\ lock = "free"
    /\ lock' = "wait"
    /\ wPc' = "check"
    /\ UNCHANGED <<pc, hePc, arm, heEvent, queue, sigFired, active_requests,
                   backend, backendWill, outcome, connected, published, exit,
                   lastDone>>

\* state.rs:54  the condition that ends the wait
DrainDone(ledger) == ledger = {}

\* the caller's position when the wait returns: main.rs:51-52 break, then
\* main.rs:81
ReturnFromWait(p) == IF p = "draining" THEN "disconnect" ELSE p

\* state.rs:53-60  one iteration of the poll loop, entered from the lock or
\* from the end of the 1 s sleep: return (dropping the guard) if the set is
\* empty, else go to sleep (state.rs:58) with the guard `requests` still held
WaitCheck ==
    /\ wPc \in {"check", "sleep"}
    /\ IF DrainDone(active_requests)
         THEN /\ wPc' = "idle"
              /\ lock' = "free"
              /\ pc' = ReturnFromWait(pc)
         ELSE /\ wPc' = "sleep"
              /\ UNCHANGED <<lock, pc>>
    /\ UNCHANGED <<hePc, arm, heEvent, queue, sigFired, active_requests,
                   backend, backendWill, outcome, connected, published, exit,
                   lastDone>>

\* ---------------------------------------------------------- specifications
Startup == NewState \/ Connect \/ BroadcastInfo
Loop == SelectCtrlC \/ RecvEvent \/ RecvShutdown \/ RecvOther \/ RecvErr
           \/ Disconnect
Handle == HeGate \/ HeBegin \/ HeComplete \/ HeRemove
Wait == WaitLock \/ WaitCheck
Env == SignalFire \/ Arrive

Next == Startup \/ Loop \/ Handle \/ Wait \/ Env

\* the program as main runs it
Spec == Init /\ [][Next]_vars

\* handle_event called directly on a constructed AppState (it is a pub
\* method), one call at a time, with any event
InitEntry ==
    /\ pc = "direct"
    /\ hePc = "idle"
    /\ wPc = "idle"
    /\ arm = "none"
    /\ heEvent = NoNotif
    /\ queue = <<>>
    /\ sigFired = FALSE
    /\ active_requests = {}
    /\ lock = "free"
    /\ backend = "idle"
    /\ backendWill = "none"
    /\ outcome = "none"
    /\ connected = "yes"
    /\ published = TRUE
    /\ exit = "none"
    /\ lastDone = 0

\* state.rs:64  a call of handle_event(event)
DirectCall ==
    /\ pc = "direct"
    /\ hePc = "idle"
    /\ \E e \in Events : heEvent' = e
    /\ hePc' = "gate"
    /\ UNCHANGED <<pc, wPc, arm, queue, sigFired, active_requests, lock,
                   backend, backendWill, outcome, connected, published, exit,
                   lastDone>>

NextEntry == DirectCall \/ HeGate \/ HeBegin \/ HeComplete \/ HeRemove

SpecEntry == InitEntry /\ [][NextEntry]_vars

\* state.rs:51  a call of wait_for_active_requests() on the shared AppState
\* (it is Clone over an Arc<Mutex<..>>) from another task
DirectWait ==
    /\ pc = "direct"
    /\ wPc = "idle"
    /\ wPc' = "lock"
    /\ UNCHANGED <<pc, hePc, arm, heEvent, queue, sigFired, active_requests,
                   lock, backend, backendWill, outcome, connected, published,
                   exit,
                   lastDone>>

NextConc == DirectCall \/ DirectWait \/ HeGate \/ HeBegin \/ HeComplete
               \/ HeRemove \/ WaitLock \/ WaitCheck

\* one task in handle_event and one in wait_for_active_requests, on the same
\* AppState, interleaved at their suspension points
SpecConc == InitEntry /\ [][NextConc]_vars

\* the program under the scheduling it runs on: a task that can take a step
\* is polled again (WF); a backend call that does not return is cut by the
\* 60 s timer (HeComplete); tokio::select! picks at random among its ready
\* branches, so a branch that is ready at infinitely many iterations is
\* taken at one of them (SF on the ctrl_c branch)
Fairness ==
    /\ WF_vars(Startup)
    /\ WF_vars(Handle)
    /\ WF_vars(Wait)
    /\ WF_vars(Disconnect)
    /\ SF_vars(SelectCtrlC)

FairSpec == Spec /\ Fairness

\* ------------------------------------------------------------ vocabulary
\* the three conditions of the authentication gate as the design states them
PassesAllThree(e) ==
    /\ e.type = "Event"
    /\ e.kind = WalletConnectRequest
    /\ e.pubkey = UserPublicKey
    /\ e.sigValid = TRUE

\* the loop takes the event at the head of the stream
ReceivesEvent ==
    /\ pc = "select"
    /\ queue # <<>>
    /\ queue' = Tail(queue)
    /\ Head(queue).type = "Event"

\* a dispatch holds a ledger entry from begin(id) until end(id) is done
InDispatch == hePc \in {"await", "remove"}

\* ----------------------------------------------------------------- claims
\* C1: in event_loop an event is dispatched (handed to handle_event, which
\* then ledgers its id and invokes the backend for it) if and only if its
\* kind is the request kind, its author is the gateway's own key and its
\* signature verifies; for any other event the ledger is unchanged and the
\* backend is not invoked.
C1_LoopDispatchesIffAllThree ==
    /\ [][ReceivesEvent =>
            IF PassesAllThree(Head(queue))
              THEN pc' = "handling" /\ hePc' = "gate" /\ heEvent' = Head(queue)
              ELSE /\ pc' = "select" /\ hePc' = "idle" /\ arm' = "event_invalid"
                   /\ active_requests' = active_requests
                   /\ backend' = backend]_vars
    /\ [][(hePc = "gate" /\ hePc' # "gate") => hePc' = "begin"]_vars
    /\ [][(hePc = "begin" /\ hePc' # "begin") =>
            /\ heEvent.id \in active_requests'
            /\ backend' = "running"]_vars
    /\ [](hePc # "idle" => arm = "event_ok" /\ PassesAllThree(heEvent))
    /\ [](backend = "running" => hePc = "await")

\* C1 witness: an event was received and dropped as invalid: the loop waits
\* again, nothing was ledgered or invoked
C1_Witness ==
    /\ pc = "select"
    /\ arm = "event_invalid"
    /\ active_requests = {}
    /\ backend = "idle"

\* C2: handle_event applies the whole gate itself: an event handed to it with
\* a wrong kind, a foreign author or an invalid signature is never ledgered
\* and never reaches the backend.
C2_HandleEventRejectsAllThree ==
    (hePc \in {"begin", "await", "remove"} \/ backend = "running")
        => PassesAllThree(heEvent)

\* C3: an identifier is in the ledger exactly while the dispatch of an
\* accepted event with that identifier is between begin(id), done together
\* with the start of the backend invocation, and end(id).
C3_LedgerIffInDispatch ==
    /\ \A id \in Ids :
         id \in active_requests <=> (InDispatch /\ heEvent.id = id)
    /\ InDispatch => PassesAllThree(heEvent)
    /\ backend = "running" <=> hePc = "await"
    /\ hePc = "remove" => outcome \in {"ok", "err", "timeout"}

\* C3 witness: a dispatch is in progress and its id is the ledger's content
C3_Witness ==
    /\ hePc = "await"
    /\ backend = "running"
    /\ active_requests = {heEvent.id}

\* C4: the ledger grows by exactly 1 when a dispatch begins and shrinks by
\* exactly 1 when it ends; every outcome of the invocation (success, backend
\* error, timeout) leads to end(id); when handle_event returns the id is
\* not in the ledger.
C4_BeginEndOnEveryPath ==
    [][/\ (hePc = "begin" /\ hePc' # "begin") =>
             Cardinality(active_requests') = Cardinality(active_requests) + 1
       /\ (hePc = "await" /\ hePc' # "await") =>
             /\ hePc' = "remove"
             /\ outcome' \in {"ok", "err", "timeout"}
             /\ active_requests' = active_requests
       /\ (hePc = "remove" /\ hePc' # "remove") =>
             /\ hePc' = "idle"
             /\ Cardinality(active_requests') + 1 = Cardinality(active_requests)
             /\ heEvent.id \notin active_requests']_vars

\* C4 witness: handle_event has returned after a backend error and the ledger
\* is empty
C4_Witness ==
    /\ hePc = "idle"
    /\ pc = "select"
    /\ arm = "event_ok"
    /\ outcome = "err"
    /\ active_requests = {}

\* C5: a dispatch whose backend invocation never returns completes by the
\* timeout: the outcome is the timeout one, the entry is cleared and the loop
\* waits for the next notification or the signal.
C5_HungBackendTimesOut ==
    (hePc = "await" /\ backendWill = "never")
        ~> (/\ hePc = "idle" /\ pc = "select"
            /\ outcome = "timeout"
            /\ active_requests = {})

\* C5 witness: the loop waits again after a dispatch whose backend never
\* returned
C5_Witness ==
    /\ pc = "select"
    /\ hePc = "idle"
    /\ backendWill = "never"
    /\ outcome = "timeout"
    /\ backend = "dropped"
    /\ active_requests = {}

\* C6: once the termination signal has fired, no event received from the
\* stream is dispatched.
C6_NoDispatchAfterSignal ==
    [][~(sigFired /\ ReceivesEvent /\ hePc' = "gate")]_vars

\* C7: disconnect is issued, and the loop is left, only with an empty ledger.
C7_StoppedOnlyWhenLedgerEmpty ==
    (pc \in {"disconnect", "exit"} \/ connected = "closed")
        => (active_requests = {} /\ hePc = "idle")

\* C7 witness: the transport was disconnected after a request was processed
C7_Witness ==
    /\ connected = "closed"
    /\ pc = "exit"
    /\ backend \in {"returned", "dropped"}
    /\ active_requests = {}

\* C8: after the termination signal has fired, the loop eventually exits,
\* with the ledger empty and the transport disconnected, whatever keeps
\* arriving on the stream.
C8_SignalLeadsToStopped ==
    sigFired ~> (pc = "exit" /\ connected = "closed" /\ active_requests = {})

\* C8 witness: stopped after the signal
C8_Witness ==
    /\ sigFired
    /\ pc = "exit"
    /\ wPc = "idle" /\ lock = "free"
    /\ connected = "closed"

\* C9: the loop leaves Running only by the ctrl_c branch or by a shutdown
\* notice; after a rejected event, an unhandled notification, a receive
\* error, a backend error or a timeout it waits for the next notification.
C9_OnlySignalOrShutdownEndsLoop ==
    [][/\ (pc = "select" /\ pc' \notin {"select", "handling"}) =>
             \/ sigFired /\ pc' = "draining"
             \/ /\ queue # <<>> /\ Head(queue).type = "Shutdown"
                /\ pc' = "disconnect"
       /\ (pc = "handling" /\ pc' # "handling") => pc' = "select"
       /\ (/\ pc = "select" /\ queue # <<>> /\ queue' = Tail(queue)
           /\ ~PassesAllThree(Head(queue))
           /\ Head(queue).type # "Shutdown") => pc' = "select"]_vars

\* C9 witness: after a failed dispatch and then a receive error the loop is
\* waiting at its select
C9_Witness ==
    /\ pc = "select"
    /\ arm = "recv_err"
    /\ outcome \in {"err", "timeout"}

\* C10: publish comes after connect and the loop after a successful publish;
\* when construction or the publish fails main ends with an error and
\* nothing was consumed, ledgered or invoked.
C10_StartupOrder ==
    /\ published => connected # "no"
    /\ (pc \in {"select", "handling", "draining", "disconnect"}
           \/ connected = "closed" \/ arm # "none" \/ queue # <<>>)
         => published
    /\ ~published =>
         /\ pc \in {"new", "connect", "publish", "exit"}
         /\ arm = "none" /\ hePc = "idle"
         /\ active_requests = {}
         /\ backend = "idle"
    /\ (pc = "exit" /\ ~published) => exit = "err"

\* C10 witness: the publish failed after the connect and main has ended
C10_Witness ==
    /\ pc = "exit"
    /\ exit = "err"
    /\ connected = "yes"
    /\ ~published

\* C11: a run in which the loop reached Stopped (the loop exited and the
\* disconnect was issued) ends with a success result, whatever the
\* disconnect returned; main fails only when a startup step failed.
C11_StoppedExitsZero ==
    (pc = "exit" /\ connected = "closed") => exit = "ok"

\* C12: the ledger never holds more than one identifier; it is empty, and no
\* dispatch is in progress, whenever the loop is at its select; a
\* notification is taken from the stream only then.
C12_OneRequestAtATime ==
    /\ [](Cardinality(active_requests) <= 1)
    /\ [](pc = "select" => (active_requests = {} /\ hePc = "idle"))
    /\ [][(queue # <<>> /\ queue' = Tail(queue)) =>
            (hePc = "idle" /\ active_requests = {})]_vars

\* C12 witness: an accepted event waits on the stream while the one dispatch
\* in flight holds the only ledger entry
C12_Witness ==
    /\ pc = "handling"
    /\ hePc = "await"
    /\ Cardinality(active_requests) = 1
    /\ queue # <<>>
    /\ PassesAllThree(Head(queue))

C14_SignalDoesNotCancelDispatch ==
    /\ [][(sigFired' /\ hePc = "await" /\ hePc' # "await") =>
            /\ hePc' = "remove"
            /\ outcome' \in {"ok", "err", "timeout"}
            /\ (outcome' = "timeout" \/ outcome' = backendWill)]_vars
    /\ [][(sigFired' /\ hePc \in {"begin", "await", "remove"}) =>
            /\ connected' = "yes"
            /\ \/ pc' = "handling" /\ heEvent' = heEvent
               \/ /\ hePc = "remove" /\ hePc' = "idle"
                  /\ heEvent.id \notin active_requests']_vars
    /\ []((sigFired /\ pc \in {"draining", "disconnect", "exit"}) =>
            (hePc = "idle" /\ backend # "running" /\ active_requests = {}))

\* C14 witness: with the signal fired, the backend call of the request in
\* flight has returned successfully and end(id) is about to run
C14_Witness ==
    /\ sigFired
    /\ pc = "handling"
    /\ hePc = "remove"
    /\ outcome = "ok" /\ backend = "returned"
    /\ active_requests = {heEvent.id}

\* C15: when wait_for_active_requests runs while a dispatch is in flight, the
\* dispatch can still remove its id: there is no state in which a dispatch
\* that has reached end(id) is kept from the ledger by the wait sleeping
\* between two polls (from such a state the ledger never empties and the
\* wait never returns).
C15_DrainLetsDispatchFinish ==
    ~(wPc = "sleep" /\ lock = "wait" /\ hePc = "remove")

\* C16: a shutdown notice takes the loop straight out: no drain wait is run,
\* nothing more is received or dispatched, and the disconnect follows.  On
\* both ways out the disconnect is issued once, from outside the loop, and
\* nothing runs after it.
C16_ShutdownStopsDirectly ==
    /\ [][(/\ pc = "select" /\ queue # <<>> /\ queue' = Tail(queue)
           /\ Head(queue).type = "Shutdown") =>
            (pc' = "disconnect" /\ arm' = "shutdown" /\ wPc' = "idle")]_vars
    /\ [](arm = "shutdown" =>
            /\ pc \in {"disconnect", "exit"}
            /\ wPc = "idle" /\ lock = "free"
            /\ hePc = "idle")
    /\ [][arm = "shutdown" =>
            /\ arm' = "shutdown"
            /\ UNCHANGED <<backend, active_requests, hePc, wPc>>
            /\ (queue' # queue => (pc = "disconnect" /\ pc' = "exit"))]_vars
    /\ [][connected' # connected =>
            \/ connected = "no" /\ connected' = "yes"
            \/ /\ connected = "yes" /\ connected' = "closed"
               /\ pc = "disconnect" /\ pc' = "exit"]_vars
    /\ [](pc = "disconnect" => connected = "yes")
    /\ []((pc = "exit" /\ published) => connected = "closed")
    /\ [][pc = "exit" => pc' = "exit"]_vars

\* C16 witness: stopped by a shutdown notice, without a drain wait
C16_Witness ==
    /\ arm = "shutdown"
    /\ pc = "exit"
    /\ connected = "closed"
    /\ wPc = "idle"
    /\ ~sigFired

\* C17: when the timer wins the race, the backend call started for the
\* request is not aborted by the gateway.
C17_TimeoutDoesNotAbortBackend ==
    outcome = "timeout" => backend # "dropped"

\* C18: the ledger lock is held only for one ledger operation: whenever it is
\* held, its holder is at its emptiness check, never asleep between two
\* polls, and a task outside a ledger operation does not hold it.
C18_LockHeldForOneOperationOnly ==
    /\ lock = "wait" => wPc = "check"
    /\ wPc \in {"idle", "lock"} => lock = "free"

\* C19: the backend is invoked once for every accepted event taken from the
\* stream and never otherwise: handle_event is entered only by the receipt of
\* an accepted event, passes once through gate, begin (where the one
\* invocation starts), await and remove, and every accepted receipt enters
\* it, also when the id is the one whose dispatch ended last: nothing
\* remembers completed ids.
C19_OneInvocationPerDelivery ==
    /\ [][(ReceivesEvent /\ PassesAllThree(Head(queue))) =>
            (hePc' = "gate" /\ heEvent' = Head(queue))]_vars
    /\ [][hePc' # hePc =>
            \/ /\ hePc = "idle" /\ hePc' = "gate"
               /\ ReceivesEvent /\ PassesAllThree(Head(queue))
            \/ hePc = "gate" /\ hePc' = "begin"
            \/ /\ hePc = "begin" /\ hePc' = "await"
               /\ backend # "running" /\ backend' = "running"
               /\ heEvent.id \in active_requests'
            \/ hePc = "await" /\ hePc' = "remove" /\ backend' # "running"
            \/ hePc = "remove" /\ hePc' = "idle"]_vars
    /\ [][(backend' = "running" /\ backend # "running") =>
            (hePc = "begin" /\ arm = "event_ok" /\ PassesAllThree(heEvent))]_vars

\* C19 witness: the backend is running for an event whose id is the one of
\* the dispatch that ended last
C19_Witness ==
    /\ hePc = "await"
    /\ backend = "running"
    /\ lastDone = heEvent.id
    /\ active_requests = {lastDone}
====
